---- MODULE Spec2Model ----
(***************************************************************************)
(* Engine runtime of Torch-TensorRT: device resolution, the serialized     *)
(* engine record, Engine construction (core/runtime/TRTEngine.cpp),        *)
(* copy-assignment, pickling and execution on the shared execution         *)
(* context.                                                                *)
(***************************************************************************)
EXTENDS Integers, Sequences, FiniteSets, TLC

(* ------------------------------ bounds --------------------------------- *)
\* logical device ids are 0 .. MaxDev-1
MaxDev == 2
\* compute signatures are 1 .. MaxSig
MaxSig == 2
\* engine objects alive at once
MaxEngines == 2

(* --------------------------- device descriptors ------------------------ *)
DevIds == 0 .. (MaxDev - 1)
Sigs == 1 .. MaxSig
Kinds == {"GENERAL", "FIXED_FUNCTION"}

\* RTDevice() / "no device": the empty optional and the unsupplied guess
NoDevice == [none |-> TRUE]

\* DeviceDescriptor (spec section 3): logical id, physical id, kind, signature
Descriptor(i, k, s) == [id |-> i, pid |-> i, kind |-> k, sig |-> s]

AllDescriptors == {Descriptor(i, k, s) : i \in DevIds, k \in Kinds, s \in Sigs}

\* DeviceList::DeviceMap: logical id -> descriptor, for the visible devices
Registries ==
  UNION {[S -> AllDescriptors] : S \in SUBSET DevIds}

WellFormedRegistry(reg) == \A i \in DOMAIN reg : reg[i].id = i

DeviceMaps == {reg \in Registries : WellFormedRegistry(reg)}

get_devices(reg) == {reg[i] : i \in DOMAIN reg}

(* ------------------------- compatibility resolver ---------------------- *)
\* relaxed cross-kind rule: a fixed-function plan may run on general-purpose
\* hardware when the plan is marked hardware compatible
KindCompatible(tk, dk, hardware_compatible) ==
  \/ dk = tk
  \/ hardware_compatible /\ tk = "FIXED_FUNCTION" /\ dk = "GENERAL"

find_compatible_devices(reg, target_device, hardware_compatible) ==
  {d \in get_devices(reg) :
     KindCompatible(target_device.kind, d.kind, hardware_compatible)}

\* variant: the signature filter is missing
NotDowngradingOff(cands, target_device) == cands

\* candidates that do not downgrade the target
NotDowngrading(cands, target_device) ==
  {d \in cands : d.sig >= target_device.sig}

\* variant: ties go to the highest logical id
BestCandidateHighId(cands) ==
  CHOOSE d \in cands :
    \A o \in cands : d.sig > o.sig \/ (d.sig = o.sig /\ d.id >= o.id)

\* highest signature first, lowest logical id among equals
BestCandidate(cands) ==
  CHOOSE d \in cands :
    \A o \in cands : d.sig > o.sig \/ (d.sig = o.sig /\ d.id <= o.id)

\* variant: the current device is never preferred
PreferCurrentNever(reg, target_device, curr_device) == FALSE

PreferCurrent(reg, target_device, curr_device) ==
  /\ curr_device # NoDevice
  /\ curr_device \in get_devices(reg)
  /\ curr_device.sig >= target_device.sig

get_most_compatible_device(reg, target_device, curr_device, hardware_compatible) ==
  IF PreferCurrent(reg, target_device, curr_device)
  THEN curr_device
  ELSE LET cands == NotDowngrading(
                      find_compatible_devices(reg, target_device, hardware_compatible),
                      target_device)
       IN  IF cands = {} THEN NoDevice ELSE BestCandidate(cands)

(* ------------------------------- strings ------------------------------- *)
\* std::string as a sequence of one-character strings
Digits == {"0", "1", "2", "3", "4", "5", "6", "7", "8", "9"}

DigitVal(c) ==
  CASE c = "0" -> 0 [] c = "1" -> 1 [] c = "2" -> 2 [] c = "3" -> 3
    [] c = "4" -> 4 [] c = "5" -> 5 [] c = "6" -> 6 [] c = "7" -> 7
    [] c = "8" -> 8 [] c = "9" -> 9

\* variant: the name is stored as supplied
slugifyIdentity(s) == s

\* std::replace(s.begin(), s.end(), '.', '_')
slugify(s) == [i \in 1 .. Len(s) |-> IF s[i] = "." THEN "_" ELSE s[i]]

\* bind_name.substr(bind_name.find("_") + 1): the text after the FIRST
\* underscore; without an underscore find is npos, npos + 1 wraps to 0 and
\* the whole name is returned
substr_after_find(s) ==
  LET us == {i \in 1 .. Len(s) : s[i] = "_"}
  IN  IF us = {} THEN s
      ELSE LET p == CHOOSE i \in us : \A j \in us : i <= j
           IN  SubSeq(s, p + 1, Len(s))

\* length of the leading run of digits of s starting at position from
RECURSIVE DigitRun(_, _)
DigitRun(s, from) ==
  IF from <= Len(s) /\ s[from] \in Digits THEN 1 + DigitRun(s, from + 1) ELSE 0

RECURSIVE DigitsValue(_, _, _)
DigitsValue(s, from, n) ==
  IF n = 0 THEN 0
  ELSE 10 * DigitsValue(s, from, n - 1) + DigitVal(s[from + n - 1])

\* std::stoi: optional sign, then the longest run of digits; characters after
\* the run are ignored; no digit at all throws std::invalid_argument
stoi(s) ==
  LET neg == Len(s) >= 1 /\ s[1] = "-"
      start == IF Len(s) >= 1 /\ s[1] \in {"-", "+"} THEN 2 ELSE 1
      n == DigitRun(s, start)
  IN  IF n = 0 THEN [ok |-> FALSE, val |-> 0]
      ELSE [ok |-> TRUE,
            val |-> IF neg THEN 0 - DigitsValue(s, start, n)
                    ELSE DigitsValue(s, start, n)]

(* ----------------------------- TensorRT plan --------------------------- *)
Null == [null |-> TRUE]

\* one declared slot of a plan: getBindingName(x) / bindingIsInput(x)
Binding(nm, isIn) == [name |-> nm, isInput |-> isIn]

\* serialized plan bytes: a well-formed blob carries the plan's bindings
PlanBlob(bs) == [magic |-> "TRT", bindings |-> bs]
CorruptBlob == [magic |-> "BAD", bindings |-> << >>]

\* rt->deserializeCudaEngine(bytes, size): a fresh plan object, or nullptr
deserializeCudaEngine(blob, h) ==
  IF blob.magic = "TRT" THEN [obj |-> h, bindings |-> blob.bindings] ELSE Null

\* cuda_engine->serialize()
serialize(plan) == PlanBlob(plan.bindings)

\* cuda_engine->createExecutionContext(): a context, or nullptr on failure
createExecutionContext(plan, ctxOk) ==
  IF ctxOk THEN [obj |-> plan.obj] ELSE Null

getNbBindings(plan) == Len(plan.bindings)
getBindingName(plan, x) == plan.bindings[x + 1].name
bindingIsInput(plan, x) == plan.bindings[x + 1].isInput

(* -------------------------- device (de)serialization ------------------- *)
\* (kind, logical_id, physical_id, compute_signature) as a short record
serialize_device(d) == <<d.kind, d.id, d.pid, d.sig>>
deserialize_device(s) == [id |-> s[2], pid |-> s[3], kind |-> s[1], sig |-> s[4]]

(* ------------------------------ the record ----------------------------- *)
\* runtime.h: const std::string ABI_VERSION
ABI_VERSION == "6"

\* TRTEngine.cpp: typedef enum { ABI_TARGET_IDX = 0, NAME_IDX, DEVICE_IDX,
\* ENGINE_IDX } SerializedInfoIndex; a std::vector index i is position i + 1
ABI_TARGET_IDX == 0
NAME_IDX == ABI_TARGET_IDX + 1
DEVICE_IDX == NAME_IDX + 1
ENGINE_IDX == DEVICE_IDX + 1

At(info, idx) == info[idx + 1]

\* runtime.h: the rest of SerializedInfoIndex as the header declares it
INPUT_BINDING_NAMES_IDX == ENGINE_IDX + 1
OUTPUT_BINDING_NAMES_IDX == INPUT_BINDING_NAMES_IDX + 1
HW_COMPATIBLE_IDX == OUTPUT_BINDING_NAMES_IDX + 1
SERIALIZED_METADATA_IDX == HW_COMPATIBLE_IDX + 1
TARGET_PLATFORM_IDX == SERIALIZED_METADATA_IDX + 1
SERIALIZATION_LEN == TARGET_PLATFORM_IDX + 1

(* --------------------------- Engine construction ----------------------- *)
NoEngine == [absent |-> TRUE]

Step(nm, succeeded) == [step |-> nm, ok |-> succeeded]

\* variant: the constructor passes the thread's active device as the guess
CtorCurrDeviceActive(activeDev) == activeDev

\* the default curr_device argument of get_most_compatible_device, as the
\* constructor calls it (one argument): no current device is supplied
CtorCurrDevice(activeDev) == NoDevice

\* the binding loop: ordinal parsed from the name of binding x; the
\* static_cast<uint64_t> is the identity on the non-negative ordinals the
\* plans modelled here produce
BindingIdx(plan, x) == stoi(substr_after_find(getBindingName(plan, x)))

BindingIndexes(plan) == 0 .. (getNbBindings(plan) - 1)

\* std::stoi throwing in the loop aborts the constructor
BindingLoopThrows(plan) ==
  \E x \in BindingIndexes(plan) : ~BindingIdx(plan, x).ok

InBindingMap(plan) ==
  [x \in {y \in BindingIndexes(plan) : bindingIsInput(plan, y)} |->
     BindingIdx(plan, x).val]

OutBindingMap(plan) ==
  [x \in {y \in BindingIndexes(plan) : ~bindingIsInput(plan, y)} |->
     BindingIdx(plan, x).val]

\* outcome of a constructor: ok/err, the steps that ran, the record fields
\* that were read, the device made active (or NoDevice) and the object;
\* named: the values streamed into the error message; mod_name: the name
\* handed to slugify; slots: the slot names the binding loop went through;
\* nfields: serialized_info.size() on the record path
Outcome(succeeded, error, stepsRun, dev, eng) ==
  [ok |-> succeeded, err |-> error, steps |-> stepsRun, fields |-> << >>,
   setDevice |-> dev, engine |-> eng,
   named |-> << >>, mod_name |-> << >>, slots |-> << >>, nfields |-> 0]

\* the (name, is-input) pairs of the plan in enumeration order
SlotList(plan) ==
  [i \in 1 .. getNbBindings(plan) |->
     Binding(getBindingName(plan, i - 1), bindingIsInput(plan, i - 1))]

\* variant: the check on the resolver's result is missing
NoCompatibleDeviceUnchecked(most_compatible_device) == FALSE

\* TRTORCH_CHECK(most_compatible_device, "No compatible device was found ...")
NoCompatibleDevice(most_compatible_device) == most_compatible_device = NoDevice

\* variant: the ABI tag is not compared
AbiMismatchUnchecked(serialized_info) == FALSE

\* TRTORCH_CHECK(serialized_info[ABI_TARGET_IDX] == ABI_VERSION, ...)
AbiMismatch(serialized_info) == At(serialized_info, ABI_TARGET_IDX) # ABI_VERSION

\* TRTEngine::TRTEngine(std::string mod_name, std::string serialized_engine,
\*                      CudaDevice cuda_device)
\* h: the address the new plan object gets; ctxOk: whether TensorRT can
\* create the execution context; activeDev: the calling thread's device
TRTEngine3(reg, mod_name, serialized_engine, cuda_device, ctxOk, h, activeDev) ==
  LET most_compatible_device ==
        get_most_compatible_device(reg, cuda_device, CtorCurrDevice(activeDev), FALSE)
      cuda_engine == deserializeCudaEngine(serialized_engine, h)
      exec_ctx == createExecutionContext(cuda_engine, ctxOk)
      s1 == <<Step("resolve", most_compatible_device # NoDevice)>>
      s2 == Append(s1, Step("set_device", TRUE))
      s3 == Append(s2, Step("deserialize_plan", cuda_engine # Null))
      s4 == Append(s3, Step("create_ctx", exec_ctx # Null))
      s5 == Append(s4, Step("bind", ~BindingLoopThrows(cuda_engine)))
      s6 == Append(s5, Step("num_io", TRUE))
  IN  IF NoCompatibleDevice(most_compatible_device)
      THEN Outcome(FALSE, "No compatible device was found", s1, NoDevice, NoEngine)
      ELSE IF cuda_engine = Null
      THEN [Outcome(FALSE, "Unable to deserialize the TensorRT engine", s3,
                    most_compatible_device, NoEngine)
              EXCEPT !.mod_name = mod_name]
      ELSE IF BindingLoopThrows(cuda_engine)
      THEN [Outcome(FALSE, "std::invalid_argument", s5,
                    most_compatible_device, NoEngine)
              EXCEPT !.mod_name = mod_name, !.slots = SlotList(cuda_engine)]
      ELSE [Outcome(TRUE, "", s6, most_compatible_device,
                    [name |-> slugify(mod_name),
                     device_info |-> most_compatible_device,
                     cuda_engine |-> cuda_engine,
                     exec_ctx |-> exec_ctx,
                     in_binding_map |-> InBindingMap(cuda_engine),
                     out_binding_map |-> OutBindingMap(cuda_engine),
                     num_io |-> <<Cardinality(DOMAIN InBindingMap(cuda_engine)),
                                  Cardinality(DOMAIN OutBindingMap(cuda_engine))>>])
              EXCEPT !.mod_name = mod_name, !.slots = SlotList(cuda_engine)]

\* std::string _name = "deserialized_trt"
DefaultName ==
  <<"d", "e", "s", "e", "r", "i", "a", "l", "i", "z", "e", "d", "_", "t", "r", "t">>

\* TRTEngine::TRTEngine(std::string serialized_engine, CudaDevice cuda_device)
TRTEngine2(reg, serialized_engine, cuda_device, ctxOk, h, activeDev) ==
  TRTEngine3(reg, DefaultName, serialized_engine, cuda_device, ctxOk, h, activeDev)

\* TRTEngine::TRTEngine(std::vector<std::string> serialized_info)
TRTEngine1(reg, serialized_info, ctxOk, h, activeDev) ==
  IF Len(serialized_info) # ENGINE_IDX + 1
  THEN [Outcome(FALSE, "incompatible TRTorch ABI", << >>, NoDevice, NoEngine)
          EXCEPT !.nfields = Len(serialized_info)]
  ELSE IF AbiMismatch(serialized_info)
  THEN [Outcome(FALSE, "different TRTorch ABI Version", << >>, NoDevice, NoEngine)
          EXCEPT !.fields = <<ABI_TARGET_IDX>>,
                 !.named = <<At(serialized_info, ABI_TARGET_IDX), ABI_VERSION>>,
                 !.nfields = Len(serialized_info)]
  ELSE LET _name == At(serialized_info, NAME_IDX)
           engine_info == At(serialized_info, ENGINE_IDX)
           cuda_device == deserialize_device(At(serialized_info, DEVICE_IDX))
       IN  [TRTEngine3(reg, _name, engine_info, cuda_device, ctxOk, h, activeDev)
              EXCEPT !.fields = <<ABI_TARGET_IDX, NAME_IDX, ENGINE_IDX, DEVICE_IDX>>,
                     !.nfields = Len(serialized_info)]

\* variant: the record is laid out with every entry of runtime.h's
\* SerializedInfoIndex
PickleAllFields(self) ==
  [i \in 1 .. SERIALIZATION_LEN |->
     CASE i - 1 = ABI_TARGET_IDX -> ABI_VERSION
       [] i - 1 = NAME_IDX -> self.name
       [] i - 1 = DEVICE_IDX -> serialize_device(self.device_info)
       [] i - 1 = ENGINE_IDX -> serialize(self.cuda_engine)
       [] OTHER -> ""]

\* def_pickle, serialize lambda: Engine -> std::vector<std::string>
Pickle(self) ==
  [i \in 1 .. (ENGINE_IDX + 1) |->
     CASE i - 1 = ABI_TARGET_IDX -> ABI_VERSION
       [] i - 1 = NAME_IDX -> self.name
       [] i - 1 = DEVICE_IDX -> serialize_device(self.device_info)
       [] i - 1 = ENGINE_IDX -> serialize(self.cuda_engine)]

\* variant: the execution context is left behind
CopyAssignNoCtx(self, other) ==
  [self EXCEPT !.cuda_engine = other.cuda_engine,
               !.device_info = other.device_info,
               !.num_io = other.num_io]

\* TRTEngine& TRTEngine::operator=(const TRTEngine& other): rt, cuda_engine,
\* device_info, exec_ctx and num_io are copied; name and the two binding
\* maps are not
CopyAssign(self, other) ==
  [self EXCEPT !.cuda_engine = other.cuda_engine,
               !.device_info = other.device_info,
               !.exec_ctx = other.exec_ctx,
               !.num_io = other.num_io]

(* ------------------------------- inputs -------------------------------- *)
\* host threads that execute; thread 1 is the one that loads engines
NumThreads == 2
Threads == 1 .. NumThreads
MainThread == CHOOSE t \in Threads : \A u \in Threads : t <= u
EngineSlots == 1 .. MaxEngines
FirstSlot == CHOOSE e \in EngineSlots : \A f \in EngineSlots : e <= f

EngineNames == {<<"m">>, <<"a", ".", "b">>}

\* plans: one input / one output; two inputs enumerated out of order; a slot
\* name without an ordinal; corrupt bytes
BlobA == PlanBlob(<<Binding(<<"i", "_", "0">>, TRUE), Binding(<<"o", "_", "0">>, FALSE)>>)
BlobB == PlanBlob(<<Binding(<<"i", "_", "1">>, TRUE), Binding(<<"i", "_", "0">>, TRUE),
                    Binding(<<"o", "_", "0">>, FALSE)>>)
BlobNoOrdinal == PlanBlob(<<Binding(<<"x">>, TRUE)>>)
GoodBlobs == {BlobA, BlobB}
Blobs == GoodBlobs \cup {BlobNoOrdinal, CorruptBlob}

\* plan bytes together with whether TensorRT can create a context for the
\* plan; the flag only matters for bytes that deserialize and bind
PlanCases ==
  {<<blob, ctxOk>> \in Blobs \X BOOLEAN : ctxOk \/ blob \in GoodBlobs}

\* descriptors recorded at compile time
TargetDevices == {Descriptor(0, k, s) : k \in Kinds, s \in Sigs}

\* records handed to the deserializing constructor: current and foreign ABI
\* tag in the four-field layout, plus a truncated record, a longer one and
\* one in the nine-field layout of runtime.h
MakeRecord(abi, nm, d, blob, n) ==
  SubSeq(<<abi, nm, serialize_device(d), blob, "", "", "", "", "">>, 1, n)
Records ==
  {MakeRecord(abi, <<"a", ".", "b">>, d, blob, ENGINE_IDX + 1) :
     abi \in {ABI_VERSION, "5"}, d \in TargetDevices, blob \in Blobs}
  \cup
  {MakeRecord(abi, <<"m">>, Descriptor(0, "GENERAL", 1), BlobA, n) :
     abi \in {ABI_VERSION, "5"},
     n \in {1, ENGINE_IDX, ENGINE_IDX + 2, SERIALIZATION_LEN}}

\* a record together with whether a context can be created; the flag only
\* matters for a record that passes both checks with good plan bytes
RecordCases ==
  {<<info, ctxOk>> \in Records \X BOOLEAN :
     \/ ctxOk
     \/ /\ Len(info) = ENGINE_IDX + 1
        /\ At(info, ABI_TARGET_IDX) = ABI_VERSION
        /\ At(info, ENGINE_IDX) \in GoodBlobs}

(* -------------------------------- state -------------------------------- *)
VARIABLES
  registry,     \* the Device Registry: logical id -> descriptor
  active,       \* per host thread: the set holding its active device id, empty
                \* before any device was made active
  engines,      \* engine slot -> Engine object or NoEngine
  lastCtor,     \* log of the most recent constructor call
  lastPickle,   \* source and result of the most recent pickle round trip
  lastResolve,  \* arguments and result of the most recent resolver call
  ctx,          \* execution context object -> its bound inputs and outputs
  pc,           \* per thread: where it is inside execute
  call,         \* per thread: the execute call in progress
  lastExec,     \* the most recently returned execute call
  lastEncode,   \* the record the most recent encode produced
  lastShape,    \* the most recent execute call on a shape-checked slot
  streams,      \* the caller's queue, the plan's queue, the events and the
                \* order in which the enqueued work completed
  lastSpec,     \* the most recent conversion of a user-facing compile setting
  heap          \* who holds a reference to which Engine, which plan objects
                \* and which execution contexts are allocated, and how often
                \* each plan was released since it was allocated

execVars == <<ctx, pc, call, lastExec>>
logVars == <<lastEncode, lastShape, streams, heap, lastSpec, lastSpec>>
vars == <<registry, active, engines, lastCtor, lastPickle, lastResolve, execVars,
          lastEncode, lastShape, streams, heap, lastSpec, lastSpec>>

NoCall == [nocall |-> TRUE]

\* no Engine is referenced and no plan object is allocated
EmptyHeap ==
  [holders |-> [e \in EngineSlots |-> {}], live |-> {}, ctxs |-> {},
   freed |-> [h \in EngineSlots |-> 0]]

\* nothing enqueued on either queue, no event recorded, nothing completed
IdleStreams ==
  [issued |-> << >>, syncs |-> << >>, caller |-> << >>, plan |-> << >>,
   fired |-> {}, done |-> << >>]

\* the address of a new plan object: one no live Engine refers to
FreshObj ==
  CHOOSE h \in EngineSlots :
    \A e \in EngineSlots : engines[e] # NoEngine => engines[e].cuda_engine.obj # h

ActiveDev(t) ==
  IF active[t] = {} THEN NoDevice ELSE registry[CHOOSE i \in active[t] : TRUE]

\* moved: the call left the thread on another device than it was called on
CtorLog(path, target, abiMismatch, activeBefore, out) ==
  [path |-> path, target |-> target, abiMismatch |-> abiMismatch,
   moved |-> /\ out.setDevice # NoDevice
             /\ activeBefore # {}
             /\ activeBefore # {out.setDevice.id},
   ok |-> out.ok, err |-> out.err, steps |-> out.steps, fields |-> out.fields,
   setDevice |-> out.setDevice,
   named |-> out.named, mod_name |-> out.mod_name, slots |-> out.slots,
   nfields |-> out.nfields]

\* effect of a constructor call by thread t into slot e
Constructed(t, e, path, target, abiMismatch, out) ==
  /\ engines' = IF out.ok THEN [engines EXCEPT ![e] = out.engine] ELSE engines
  /\ active' = IF out.setDevice # NoDevice
               THEN [active EXCEPT ![t] = {out.setDevice.id}] ELSE active
  /\ lastCtor' = CtorLog(path, target, abiMismatch, active[t], out)

UnboundCtx == [bound |-> << >>, out |-> << >>]

Init ==
  /\ registry \in DeviceMaps
  /\ active = [t \in Threads |-> {}]
  /\ engines = [e \in EngineSlots |-> NoEngine]
  /\ lastCtor = NoCall
  /\ lastPickle = NoCall
  /\ lastResolve = NoCall
  /\ ctx = [h \in EngineSlots |-> UnboundCtx]
  /\ pc = [t \in Threads |-> "idle"]
  /\ call = [t \in Threads |-> NoCall]
  /\ lastExec = NoCall
  /\ lastEncode = NoCall
  /\ lastShape = NoCall
  /\ streams = IdleStreams
  /\ heap = EmptyHeap
  /\ lastSpec = NoCall

\* c10::make_intrusive<TRTEngine>(name, engine, device)
ConstructNamed(t, e, nm, blob, d, ctxOk) ==
  /\ engines[e] = NoEngine
  /\ Constructed(t, e, "named", d, FALSE,
                 TRTEngine3(registry, nm, blob, d, ctxOk, FreshObj, ActiveDev(t)))
  /\ UNCHANGED <<logVars, registry, lastPickle, lastResolve, execVars>>

\* TRTEngine(engine, device): the default-named path
ConstructDefault(t, e, blob, d, ctxOk) ==
  /\ engines[e] = NoEngine
  /\ Constructed(t, e, "default", d, FALSE,
                 TRTEngine2(registry, blob, d, ctxOk, FreshObj, ActiveDev(t)))
  /\ UNCHANGED <<logVars, registry, lastPickle, lastResolve, execVars>>

RecordTarget(info) ==
  IF Len(info) > DEVICE_IDX THEN deserialize_device(At(info, DEVICE_IDX)) ELSE NoDevice

\* torch::init<std::vector<std::string>> / the deserialize lambda
ConstructRecord(t, e, info, ctxOk) ==
  /\ engines[e] = NoEngine
  /\ Constructed(t, e, "record", RecordTarget(info),
                 At(info, ABI_TARGET_IDX) # ABI_VERSION,
                 TRTEngine1(registry, info, ctxOk, FreshObj, ActiveDev(t)))
  /\ UNCHANGED <<logVars, registry, lastPickle, lastResolve, execVars>>

\* what a round trip is compared on
Snapshot(eng) ==
  [name |-> eng.name, device_info |-> eng.device_info,
   in_binding_map |-> eng.in_binding_map, out_binding_map |-> eng.out_binding_map,
   num_io |-> eng.num_io, obj |-> eng.cuda_engine.obj]

\* pickle Engine e and unpickle the record into the free slot f
RoundTrip(t, e, f, ctxOk) ==
  /\ engines[e] # NoEngine
  /\ engines[f] = NoEngine
  /\ LET info == Pickle(engines[e])
         out == TRTEngine1(registry, info, ctxOk, FreshObj, ActiveDev(t))
     IN  /\ Constructed(t, f, "record", RecordTarget(info),
                        At(info, ABI_TARGET_IDX) # ABI_VERSION, out)
         /\ lastPickle' = [src |-> Snapshot(engines[e]), ok |-> out.ok,
                           dst |-> IF out.ok THEN Snapshot(out.engine) ELSE NoEngine]
  /\ UNCHANGED <<logVars, registry, lastResolve, execVars>>

\* engines[e] = engines[f]
Assign(e, f) ==
  /\ e # f
  /\ engines[e] # NoEngine
  /\ engines[f] # NoEngine
  /\ engines' = [engines EXCEPT ![e] = CopyAssign(engines[e], engines[f])]
  /\ UNCHANGED <<logVars, registry, active, lastCtor, lastPickle, lastResolve, execVars>>

\* the last reference to Engine e is dropped
Destroy(e) ==
  /\ engines[e] # NoEngine
  /\ engines' = [engines EXCEPT ![e] = NoEngine]
  /\ UNCHANGED <<logVars, registry, active, lastCtor, lastPickle, lastResolve, execVars>>

\* trtorch::set_device(gpu_id): cudaSetDevice on the calling thread
set_device(t, gpu_id) ==
  /\ gpu_id \in DOMAIN registry
  /\ active' = [active EXCEPT ![t] = {gpu_id}]
  /\ UNCHANGED <<logVars, registry, engines, lastCtor, lastPickle, lastResolve, execVars>>

\* hosts whose devices are all general-purpose, any number of them
GeneralHosts ==
  {reg \in DeviceMaps : \A i \in DOMAIN reg : reg[i].kind = "GENERAL"}

InitCtor == Init /\ registry \in GeneralHosts

(* Engine construction on the loading thread, one Engine object at a time, on *)
(* a host of general-purpose devices; targets of both kinds                  *)
Next ==
  \/ \E nm \in EngineNames, pcase \in PlanCases, d \in TargetDevices :
       ConstructNamed(MainThread, FirstSlot, nm, pcase[1], d, pcase[2])
  \/ \E pcase \in PlanCases, d \in TargetDevices :
       ConstructDefault(MainThread, FirstSlot, pcase[1], d, pcase[2])
  \/ \E rcase \in RecordCases :
       ConstructRecord(MainThread, FirstSlot, rcase[1], rcase[2])
  \/ Destroy(FirstSlot)
  \/ \E g \in DevIds : set_device(MainThread, g)

Spec == InitCtor /\ [][Next]_vars

(* The resolver as a pure function of the registry and its arguments *)
\* the resolver keeps no state, so one call per behaviour covers it
ResolveCall(target_device, curr_device, hardware_compatible) ==
  /\ lastResolve = NoCall
  /\ lastResolve' =
       [target |-> target_device, curr |-> curr_device, hc |-> hardware_compatible,
        result |-> get_most_compatible_device(registry, target_device, curr_device,
                                              hardware_compatible)]
  /\ UNCHANGED <<logVars, registry, active, engines, lastCtor, lastPickle, execVars>>

NextResolve ==
  \E target \in AllDescriptors, curr \in AllDescriptors \cup {NoDevice},
     hc \in BOOLEAN : ResolveCall(target, curr, hc)

SpecResolve == Init /\ [][NextResolve]_vars

(* Engine objects over their lifetime: construction, pickling, assignment *)
LifeTargets == {Descriptor(0, "GENERAL", 1)}

NextLife ==
  \/ \E e \in EngineSlots, nm \in EngineNames, blob \in GoodBlobs,
        d \in LifeTargets, ctxOk \in BOOLEAN :
       ConstructNamed(MainThread, e, nm, blob, d, ctxOk)
  \/ \E e, f \in EngineSlots, ctxOk \in BOOLEAN : RoundTrip(MainThread, e, f, ctxOk)
  \/ \E e, f \in EngineSlots : Assign(e, f)
  \/ \E e \in EngineSlots : Destroy(e)

\* hosts with a general-purpose device at every logical id, all devices alike
LifeRegistries ==
  {reg \in GeneralHosts :
     DOMAIN reg = DevIds /\ \A i, j \in DevIds : reg[i].sig = reg[j].sig}

InitLife == Init /\ registry \in LifeRegistries

SpecLife == InitLife /\ [][NextLife]_vars

(* Engine names through construction, pickling and unpickling *)
\* a host with one general-purpose device per logical id, all alike
ExecRegistry == [i \in DevIds |-> Descriptor(i, "GENERAL", MaxSig)]

NameInputs == EngineNames \cup {<<".", "x", ".">>}

NameRecords ==
  {MakeRecord(ABI_VERSION, nm, d, BlobA, ENGINE_IDX + 1) :
     nm \in NameInputs, d \in LifeTargets}

NextName ==
  \/ \E e \in EngineSlots, nm \in NameInputs, d \in LifeTargets :
       ConstructNamed(MainThread, e, nm, BlobA, d, TRUE)
  \/ \E e \in EngineSlots, d \in LifeTargets :
       ConstructDefault(MainThread, e, BlobA, d, TRUE)
  \/ \E e \in EngineSlots, info \in NameRecords :
       ConstructRecord(MainThread, e, info, TRUE)
  \/ \E e, f \in EngineSlots : RoundTrip(MainThread, e, f, TRUE)
  \/ \E e \in EngineSlots : Destroy(e)

InitName == Init /\ registry = ExecRegistry

SpecName == InitName /\ [][NextName]_vars

(* Slot names: the binding loop over plans whose slots are named in every way *)
\* the plan of the binding-density scenario: input_0 .. input_3 and
\* output_0 .. output_1
InputName(d) == <<"i", "n", "p", "u", "t", "_", d>>
OutputName(d) == <<"o", "u", "t", "p", "u", "t", "_", d>>
BlobDense ==
  PlanBlob(<<Binding(InputName("0"), TRUE), Binding(InputName("1"), TRUE),
             Binding(InputName("2"), TRUE), Binding(InputName("3"), TRUE),
             Binding(OutputName("0"), FALSE), Binding(OutputName("1"), FALSE)>>)
\* characters after the digits
BlobTrailingText ==
  PlanBlob(<<Binding(<<"i", "_", "0", "x">>, TRUE), Binding(<<"o", "_", "0">>, FALSE)>>)
\* digits and no underscore
BlobBareNumber ==
  PlanBlob(<<Binding(<<"7">>, TRUE), Binding(<<"o", "_", "0">>, FALSE)>>)
\* a prefix with an underscore of its own, followed by a letter
BlobNestedPrefix ==
  PlanBlob(<<Binding(<<"a", "_", "b", "_", "0">>, TRUE), Binding(<<"o", "_", "0">>, FALSE)>>)
\* a prefix with an underscore of its own, followed by a digit
BlobNumericPrefix ==
  PlanBlob(<<Binding(<<"a", "_", "1", "_", "0">>, TRUE), Binding(<<"o", "_", "0">>, FALSE)>>)
\* one input slot, numbered 1
BlobSparse ==
  PlanBlob(<<Binding(<<"i", "_", "1">>, TRUE), Binding(<<"o", "_", "0">>, FALSE)>>)
\* two input slots with the same number
BlobRepeated ==
  PlanBlob(<<Binding(<<"i", "_", "0">>, TRUE), Binding(<<"j", "_", "0">>, TRUE),
             Binding(<<"o", "_", "0">>, FALSE)>>)
BindBlobs ==
  GoodBlobs \cup {BlobNoOrdinal, BlobDense, BlobTrailingText, BlobBareNumber,
                  BlobNestedPrefix, BlobNumericPrefix, BlobSparse, BlobRepeated}

NextBind ==
  \/ \E nm \in EngineNames, blob \in BindBlobs, d \in LifeTargets, ctxOk \in BOOLEAN :
       ConstructNamed(MainThread, FirstSlot, nm, blob, d, ctxOk)
  \/ \E blob \in BindBlobs, d \in LifeTargets, ctxOk \in BOOLEAN :
       ConstructDefault(MainThread, FirstSlot, blob, d, ctxOk)
  \/ Destroy(FirstSlot)

SpecBind == InitLife /\ [][NextBind]_vars

(* ------------------------------- execute ------------------------------- *)
\* tensors are told apart by their data
Tokens == {"x", "y"}
\* requests of every length some plan takes, and the empty request
RequestLens == {Len(b.bindings) - 1 : b \in GoodBlobs} \cup {0}
Requests == UNION {[1 .. n -> Tokens] : n \in RequestLens}

\* what the plan computes for output binding x from the inputs bound to the
\* context: a value that names the binding and every bound input
PlanOutput(x, bound) == <<x, bound>>

\* the input bindings of the context as execute fills them: request tensor k
\* goes to the binding whose ordinal is k
BindInputs(eng, req) ==
  [x \in DOMAIN eng.in_binding_map |-> req[eng.in_binding_map[x] + 1]]

EnqueueOutputs(eng, bound) ==
  [x \in DOMAIN eng.out_binding_map |-> PlanOutput(x, bound)]

\* the result sequence: position k + 1 holds the output of ordinal k
ReadOutputs(eng, out) ==
  [k \in 1 .. eng.num_io[2] |->
     out[CHOOSE x \in DOMAIN eng.out_binding_map : eng.out_binding_map[x] = k - 1]]

\* what one execute call on its own returns for request req
SingleThreaded(eng, req) ==
  ReadOutputs(eng, EnqueueOutputs(eng, BindInputs(eng, req)))

\* variant: only a request with too few inputs is rejected
RequestLenTooShort(eng, req) == Len(req) < eng.num_io[1]

\* precondition len(request.inputs) == engine.num_inputs, negated
RequestLenMismatch(eng, req) == Len(req) # eng.num_io[1]

\* variant: execute leaves the thread on the device it was on
MadeActiveNever(eng, current) == current

\* execute, step 1: the Engine's bound device becomes the calling thread's
\* active device, whatever device the thread was on
MadeActive(eng, current) == {eng.device_info.id}

\* the most recently returned call on Engine e was rejected
JustRejected(e) == lastExec # NoCall /\ ~lastExec.ok /\ lastExec.engine = e

\* execute, steps 1 and 2: check the request, make the Engine's device the
\* thread's active device, bind the inputs on the Engine's execution context
ExecBind(t, e, req) ==
  /\ pc[t] = "idle"
  /\ engines[e] # NoEngine
  /\ engines[e].exec_ctx # Null
  /\ IF RequestLenMismatch(engines[e], req)
     THEN /\ lastExec' = [thread |-> t, engine |-> e, req |-> req, ok |-> FALSE,
                          result |-> << >>, afterReject |-> FALSE, dev |-> {}]
          /\ UNCHANGED <<active, ctx, pc, call>>
     ELSE /\ active' = [active EXCEPT ![t] = MadeActive(engines[e], active[t])]
          /\ ctx' = [ctx EXCEPT ![engines[e].exec_ctx.obj].bound =
                       BindInputs(engines[e], req)]
          /\ pc' = [pc EXCEPT ![t] = "bound"]
          /\ call' = [call EXCEPT ![t] = [engine |-> e, req |-> req,
                                           afterReject |-> JustRejected(e),
                                           dev |-> {}]]
          /\ UNCHANGED lastExec
  /\ UNCHANGED <<logVars, registry, engines, lastCtor, lastPickle, lastResolve>>

\* execute, step 3: run the plan on whatever the context has bound; the work
\* is submitted to the calling thread's active device
ExecEnqueue(t) ==
  /\ pc[t] = "bound"
  /\ LET eng == engines[call[t].engine]
         h == eng.exec_ctx.obj
     IN  ctx' = [ctx EXCEPT ![h].out = EnqueueOutputs(eng, ctx[h].bound)]
  /\ pc' = [pc EXCEPT ![t] = "enqueued"]
  /\ call' = [call EXCEPT ![t].dev = active[t]]
  /\ UNCHANGED <<logVars, registry, active, engines, lastCtor, lastPickle, lastResolve,
                 lastExec>>

\* execute, step 4: return the output tensors in output-slot order
ExecReturn(t) ==
  /\ pc[t] = "enqueued"
  /\ LET eng == engines[call[t].engine]
         h == eng.exec_ctx.obj
     IN  lastExec' = [thread |-> t, engine |-> call[t].engine, req |-> call[t].req,
                      ok |-> TRUE, result |-> ReadOutputs(eng, ctx[h].out),
                      afterReject |-> call[t].afterReject, dev |-> call[t].dev]
  /\ pc' = [pc EXCEPT ![t] = "idle"]
  /\ call' = [call EXCEPT ![t] = NoCall]
  /\ UNCHANGED <<logVars, registry, active, engines, lastCtor, lastPickle, lastResolve, ctx>>

\* the Engines the threads share, as the constructor builds them
LoadedEngine(e, blob) ==
  TRTEngine3(ExecRegistry, <<"m">>, blob, Descriptor(0, "GENERAL", 1), TRUE, e,
             NoDevice).engine

InitExec ==
  /\ registry = ExecRegistry
  /\ active = [t \in Threads |-> {}]
  /\ \E blobs \in [EngineSlots -> GoodBlobs] :
       engines = [e \in EngineSlots |-> LoadedEngine(e, blobs[e])]
  /\ lastCtor = NoCall
  /\ lastPickle = NoCall
  /\ lastResolve = NoCall
  /\ ctx = [h \in EngineSlots |-> UnboundCtx]
  /\ pc = [t \in Threads |-> "idle"]
  /\ call = [t \in Threads |-> NoCall]
  /\ lastExec = NoCall
  /\ lastEncode = NoCall
  /\ lastShape = NoCall
  /\ streams = IdleStreams
  /\ heap = EmptyHeap
  /\ lastSpec = NoCall

NextExec ==
  \/ \E t \in Threads, e \in EngineSlots, req \in Requests : ExecBind(t, e, req)
  \/ \E t \in Threads : ExecEnqueue(t)
  \/ \E t \in Threads : ExecReturn(t)

SpecExec == InitExec /\ [][NextExec]_vars

(* Slot order: plans that declare the same slots in different orders *)
BlobInOrder ==
  PlanBlob(<<Binding(<<"i", "_", "0">>, TRUE), Binding(<<"i", "_", "1">>, TRUE),
             Binding(<<"o", "_", "0">>, FALSE), Binding(<<"o", "_", "1">>, FALSE)>>)
BlobReversed ==
  PlanBlob(<<Binding(<<"o", "_", "1">>, FALSE), Binding(<<"i", "_", "1">>, TRUE),
             Binding(<<"o", "_", "0">>, FALSE), Binding(<<"i", "_", "0">>, TRUE)>>)
BlobInterleaved ==
  PlanBlob(<<Binding(<<"i", "_", "1">>, TRUE), Binding(<<"o", "_", "0">>, FALSE),
             Binding(<<"i", "_", "0">>, TRUE), Binding(<<"o", "_", "1">>, FALSE)>>)
OrderBlobs == {BlobInOrder, BlobReversed, BlobInterleaved}

\* one thread builds Engines, assigns between them and executes on them
NextOrder ==
  \/ \E e \in EngineSlots, blob \in OrderBlobs, d \in LifeTargets :
       ConstructNamed(MainThread, e, <<"m">>, blob, d, TRUE)
  \/ \E e, f \in EngineSlots : pc[MainThread] = "idle" /\ Assign(e, f)
  \/ \E e \in EngineSlots, req \in Requests : ExecBind(MainThread, e, req)
  \/ ExecEnqueue(MainThread)
  \/ ExecReturn(MainThread)

SpecOrder == InitName /\ [][NextOrder]_vars

(* One Engine in use: threads execute on it and encode it, in any order *)
\* variant: pickling empties the input binding map
SelfAfterPickleNoMaps(self) == [self EXCEPT !.in_binding_map = << >>]

\* the serialize lambda takes const c10::intrusive_ptr<TRTEngine>& self and
\* only reads cuda_engine, name and device_info
SelfAfterPickle(self) == self

\* encode: the pickle of Engine e
Encode(e) ==
  /\ engines[e] # NoEngine
  /\ lastEncode' = Pickle(engines[e])
  /\ engines' = [engines EXCEPT ![e] = SelfAfterPickle(engines[e])]
  /\ UNCHANGED <<lastShape, streams, heap, lastSpec, registry, active, lastCtor, lastPickle,
                 lastResolve, execVars>>

\* requests of every length, all of the same data
UseRequests == UNION {[1 .. n -> {"x"}] : n \in RequestLens}

InitUse ==
  /\ registry = ExecRegistry
  /\ active = [t \in Threads |-> {}]
  /\ \E blob \in GoodBlobs :
       engines = [e \in EngineSlots |->
                    IF e = FirstSlot THEN LoadedEngine(e, blob) ELSE NoEngine]
  /\ lastCtor = NoCall
  /\ lastPickle = NoCall
  /\ lastResolve = NoCall
  /\ ctx = [h \in EngineSlots |-> UnboundCtx]
  /\ pc = [t \in Threads |-> "idle"]
  /\ call = [t \in Threads |-> NoCall]
  /\ lastExec = NoCall
  /\ lastEncode = NoCall
  /\ lastShape = NoCall
  /\ streams = IdleStreams
  /\ heap = EmptyHeap
  /\ lastSpec = NoCall

NextUse ==
  \/ \E t \in Threads, req \in UseRequests : ExecBind(t, FirstSlot, req)
  \/ \E t \in Threads : ExecEnqueue(t)
  \/ \E t \in Threads : ExecReturn(t)
  \/ Encode(FirstSlot)

SpecUse == InitUse /\ [][NextUse]_vars

(* execute on an Engine with one shape-checked input slot *)
\* what a plan declares for an input slot: the shape range and element type
SlotDecl(lo, mid, hi, ty) == [min |-> lo, opt |-> mid, max |-> hi, dtype |-> ty]

\* core::ir::Input(sizes): a static slot, the range is the one shape
toInputs(sizes, ty) == SlotDecl(sizes, sizes, sizes, ty)

\* toInputsDynamic: min_range[d] = ceil(opt[d] / 2.0), max_range[d] = 2 * opt[d],
\* on the batch dimension or else on dimension 1
toInputsDynamic(opt, dynamic_batch, ty) ==
  LET d == IF dynamic_batch THEN 1 ELSE 2
  IN  SlotDecl([opt EXCEPT ![d] = (opt[d] + 1) \div 2], opt,
               [opt EXCEPT ![d] = 2 * opt[d]], ty)

\* the dynamic-range plan of the end-to-end scenario
ScenarioSlot ==
  SlotDecl(<<1, 3, 112, 112>>, <<1, 3, 224, 224>>, <<1, 3, 448, 448>>, "float")

ShapedSlots ==
  {ScenarioSlot, toInputs(<<1, 3, 224, 224>>, "float")}
  \cup {toInputsDynamic(<<1, 3, 224, 224>>, b, "half") : b \in BOOLEAN}

\* input tensors: shape and element type
Tensor(sh, ty) == [shape |-> sh, dtype |-> ty]
ShapedTensors ==
  {Tensor(<<n, c, hw, hw>>, ty) :
     n \in {1, 2, 3}, c \in {1, 3, 6, 7}, hw \in {100, 112, 224, 448, 500},
     ty \in {"float", "half"}}
  \cup {Tensor(<<3, 224, 224>>, "float")}

\* variant: only the lower end of the range is checked
ShapeInRangeNoMax(slot, shape) ==
  /\ Len(shape) = Len(slot.min)
  /\ \A i \in 1 .. Len(shape) : slot.min[i] <= shape[i]

\* the shape lies within the declared [min, max] in every dimension; for a
\* static slot min = max, so the shape equals the static shape
ShapeInRange(slot, shape) ==
  /\ Len(shape) = Len(slot.min)
  /\ \A i \in 1 .. Len(shape) : slot.min[i] <= shape[i] /\ shape[i] <= slot.max[i]

\* dtype matches the slot's declared type exactly, no implicit casting
DtypeMatches(slot, tensor) == tensor.dtype = slot.dtype

AcceptsInput(slot, tensor) ==
  ShapeInRange(slot, tensor.shape) /\ DtypeMatches(slot, tensor)

\* execute with one input on an Engine whose input slot is declared as slot:
\* the precondition check, then (only if it passes) binding and enqueueing
ExecuteShaped(slot, tensor) ==
  /\ lastShape' = [slot |-> slot, tensor |-> tensor,
                   ok |-> AcceptsInput(slot, tensor),
                   enqueued |-> AcceptsInput(slot, tensor)]
  /\ UNCHANGED <<lastEncode, streams, heap, lastSpec, registry, active, engines, lastCtor,
                 lastPickle, lastResolve, execVars>>

NextShape ==
  \E slot \in ShapedSlots, tensor \in ShapedTensors : ExecuteShaped(slot, tensor)

SpecShape == InitName /\ [][NextShape]_vars

(* Threads executing Engines that are bound to different devices *)
\* a host with one general-purpose device and fixed-function devices
MixedRegistry ==
  [i \in DevIds |->
     Descriptor(i, IF i = 0 THEN "GENERAL" ELSE "FIXED_FUNCTION", MaxSig)]

SecondSlot ==
  CHOOSE e \in EngineSlots \ {FirstSlot} : \A f \in EngineSlots \ {FirstSlot} : e <= f
DevSlots == {FirstSlot, SecondSlot}

\* the Engine in slot e: built for the general-purpose device in the first
\* slot and for a fixed-function device in the second
EngineOnDevice(e) ==
  TRTEngine3(MixedRegistry, <<"m">>, BlobA,
             Descriptor(0, IF e = FirstSlot THEN "GENERAL" ELSE "FIXED_FUNCTION", 1),
             TRUE, e, NoDevice).engine

InitDev ==
  /\ registry = MixedRegistry
  /\ active = [t \in Threads |-> {}]
  /\ engines = [e \in EngineSlots |->
                  IF e \in DevSlots THEN EngineOnDevice(e) ELSE NoEngine]
  /\ lastCtor = NoCall
  /\ lastPickle = NoCall
  /\ lastResolve = NoCall
  /\ ctx = [h \in EngineSlots |-> UnboundCtx]
  /\ pc = [t \in Threads |-> "idle"]
  /\ call = [t \in Threads |-> NoCall]
  /\ lastExec = NoCall
  /\ lastEncode = NoCall
  /\ lastShape = NoCall
  /\ streams = IdleStreams
  /\ heap = EmptyHeap
  /\ lastSpec = NoCall

NextDev ==
  \/ \E t \in Threads, e \in DevSlots : ExecBind(t, e, <<"x">>)
  \/ \E t \in Threads : ExecEnqueue(t)
  \/ \E t \in Threads : ExecReturn(t)

SpecDev == InitDev /\ [][NextDev]_vars

(* Stream-ordered execution: the caller's queue and the plan's queue *)
\* host calls (the caller's own work, and execute calls) per behaviour
MaxQueued == 4

\* operations on a queue: a piece of work, cudaEventRecord, cudaStreamWaitEvent
Work(id) == [op |-> "work", id |-> id, ev |-> "none"]
EventRecord(id, ev) == [op |-> "record", id |-> id, ev |-> ev]
StreamWaitEvent(id, ev) == [op |-> "wait", id |-> id, ev |-> ev]

\* cudaStreamWaitEvent(torch_stream.stream(), event, 0)
WaitInputsReady(id) == <<StreamWaitEvent(id, "in")>>

\* variant: the caller's queue does not wait for the plan's work
WaitOutputsReadyMissing(id) == << >>

\* cudaStreamWaitEvent(stream, torch_event, 0)
WaitOutputsReady(id) == <<StreamWaitEvent(id, "out")>>

\* the caller enqueues work of its own on its queue
CallerEnqueue ==
  /\ Len(streams.issued) < MaxQueued
  /\ LET id == Len(streams.issued) + 1
     IN  streams' = [streams EXCEPT !.issued = Append(@, "w"),
                                    !.syncs = Append(@, 0),
                                    !.caller = Append(@, Work(id))]
  /\ UNCHANGED <<lastEncode, lastShape, heap, lastSpec, registry, active, engines, lastCtor,
                 lastPickle, lastResolve, execVars>>

\* execute in caller-queue mode, step 3: record an event on the caller's
\* queue, make the plan's queue wait for it, enqueue the plan's work, record
\* an event behind it and make the caller's queue wait for that one
EnqueueAsync ==
  /\ Len(streams.issued) < MaxQueued
  /\ LET id == Len(streams.issued) + 1
     IN  streams' =
           [streams EXCEPT
              !.issued = Append(@, "p"),
              !.syncs = Append(@, Len(WaitInputsReady(id)) + Len(WaitOutputsReady(id))),
              !.caller = (@ \o <<EventRecord(id, "in")>>) \o WaitOutputsReady(id),
              !.plan = ((@ \o WaitInputsReady(id)) \o <<Work(id)>>)
                         \o <<EventRecord(id, "out")>>]
  /\ UNCHANGED <<lastEncode, lastShape, heap, lastSpec, registry, active, engines, lastCtor,
                 lastPickle, lastResolve, execVars>>

\* the operation at the head of a queue can run: a wait runs once its event
\* has been recorded
CanRun(o) == o.op = "wait" => <<o.id, o.ev>> \in streams.fired

\* the state of events and completions after operation o has run
AfterOp(o) ==
  [streams EXCEPT
     !.fired = IF o.op = "record" THEN @ \cup {<<o.id, o.ev>>} ELSE @,
     !.done = IF o.op = "work" THEN Append(@, o.id) ELSE @]

\* the device runs the head of the caller's queue
RunCallerQueue ==
  /\ streams.caller # << >>
  /\ CanRun(Head(streams.caller))
  /\ streams' = [AfterOp(Head(streams.caller)) EXCEPT !.caller = Tail(@)]
  /\ UNCHANGED <<lastEncode, lastShape, heap, lastSpec, registry, active, engines, lastCtor,
                 lastPickle, lastResolve, execVars>>

\* the device runs the head of the plan's queue
RunPlanQueue ==
  /\ streams.plan # << >>
  /\ CanRun(Head(streams.plan))
  /\ streams' = [AfterOp(Head(streams.plan)) EXCEPT !.plan = Tail(@)]
  /\ UNCHANGED <<lastEncode, lastShape, heap, lastSpec, registry, active, engines, lastCtor,
                 lastPickle, lastResolve, execVars>>

NextStream ==
  \/ CallerEnqueue
  \/ EnqueueAsync
  \/ RunCallerQueue
  \/ RunPlanQueue

SpecStream == InitName /\ [][NextStream]_vars

(* ----------------------- ownership of plan objects ---------------------- *)
\* Engine eng refers to plan object h through its cuda_engine member
HoldsPlan(eng, h) == eng # NoEngine /\ eng.cuda_engine.obj = h

\* Engine eng refers to the execution context of plan object h
HoldsCtx(eng, h) ==
  eng # NoEngine /\ eng.exec_ctx # Null /\ eng.exec_ctx.obj = h

\* no Engine of engs refers to plan object h any more
LastReference(engs, h) == \A e \in EngineSlots : ~HoldsPlan(engs[e], h)

\* no Engine of engs refers to the execution context of plan object h
LastCtxReference(engs, h) == \A e \in EngineSlots : ~HoldsCtx(engs[e], h)

\* an Engine let go of plan object h and of its context, leaving the Engines
\* engs: each of the two is released if that was the last reference to it
LetGo(hp, engs, h) ==
  [hp EXCEPT !.live = IF LastReference(engs, h) THEN @ \ {h} ELSE @,
             !.freed[h] = IF LastReference(engs, h) /\ h \in hp.live
                          THEN @ + 1 ELSE @,
             !.ctxs = IF LastCtxReference(engs, h) THEN @ \ {h} ELSE @]

RefTarget == CHOOSE d \in LifeTargets : TRUE

\* thread t creates an Engine in slot e and holds the only reference to it
LoadEngine(t, e) ==
  /\ engines[e] = NoEngine
  /\ LET h == FreshObj
         out == TRTEngine3(registry, <<"m">>, BlobA, RefTarget, TRUE, h, ActiveDev(t))
     IN  /\ Constructed(t, e, "named", RefTarget, FALSE, out)
         /\ heap' = [heap EXCEPT !.holders[e] = {t}, !.live = @ \cup {h},
                                 !.ctxs = @ \cup {h}, !.freed[h] = 0]
  /\ UNCHANGED <<lastEncode, lastShape, streams, lastSpec, registry, lastPickle,
                 lastResolve, execVars>>

\* thread t hands a reference to Engine e to thread u
ShareRef(t, u, e) ==
  /\ t \in heap.holders[e]
  /\ u \notin heap.holders[e]
  /\ heap' = [heap EXCEPT !.holders[e] = @ \cup {u}]
  /\ UNCHANGED <<lastEncode, lastShape, streams, lastSpec, registry, active, engines,
                 lastCtor, lastPickle, lastResolve, execVars>>

\* thread t drops its reference to Engine e; with the last reference the
\* Engine is destroyed and lets go of its plan
DropRef(t, e) ==
  /\ t \in heap.holders[e]
  /\ LET rest == heap.holders[e] \ {t}
         hp == [heap EXCEPT !.holders[e] = rest]
         engs == [engines EXCEPT ![e] = NoEngine]
     IN  IF rest = {}
         THEN /\ engines' = engs
              /\ heap' = LetGo(hp, engs, engines[e].cuda_engine.obj)
         ELSE /\ engines' = engines
              /\ heap' = hp
  /\ UNCHANGED <<lastEncode, lastShape, streams, lastSpec, registry, active, lastCtor,
                 lastPickle, lastResolve, execVars>>

\* thread t, holding both Engines, runs e = f: e lets go of the plan it had
\* and shares the plan and context of f
AssignShared(t, e, f) ==
  /\ e # f
  /\ t \in heap.holders[e] \cap heap.holders[f]
  /\ LET engs == [engines EXCEPT ![e] = CopyAssign(engines[e], engines[f])]
     IN  /\ engines' = engs
         /\ heap' = LetGo(heap, engs, engines[e].cuda_engine.obj)
  /\ UNCHANGED <<lastEncode, lastShape, streams, lastSpec, registry, active, lastCtor,
                 lastPickle, lastResolve, execVars>>

NextRef ==
  \/ \E t \in Threads, e \in EngineSlots : LoadEngine(t, e)
  \/ \E t \in Threads, u \in Threads, e \in EngineSlots : ShareRef(t, u, e)
  \/ \E t \in Threads, e \in EngineSlots : DropRef(t, e)
  \/ \E t \in Threads, e \in EngineSlots, f \in EngineSlots : AssignShared(t, e, f)

SpecRef == InitName /\ [][NextRef]_vars

(* --------------------------- device registry scan ----------------------- *)
\* the accelerators of the host: a fixed-function unit and general-purpose
\* devices; what a device is does not change, which devices are visible does
Board(i) == IF i = 0 THEN <<"FIXED_FUNCTION", 1>> ELSE <<"GENERAL", MaxSig>>

\* the accelerators visible to the process: logical id -> <<kind, signature>>
Hardware == {[i \in S |-> Board(i)] : S \in SUBSET DevIds}

\* DeviceList::insert(device_id, cuda_device)
insert(device_list, device_id, cuda_device) ==
  [i \in DOMAIN device_list \cup {device_id} |->
     IF i = device_id THEN cuda_device ELSE device_list[i]]

\* variant: every scanned descriptor carries the id of the first device
ScannedDeviceFirstId(hw, i) == Descriptor(0, hw[i][1], hw[i][2])

\* the descriptor the scan builds for visible device i
ScannedDevice(hw, i) == Descriptor(i, hw[i][1], hw[i][2])

RECURSIVE ScanDevices(_, _)
ScanDevices(hw, todo) ==
  IF todo = {} THEN << >>
  ELSE LET i == CHOOSE j \in todo : \A k \in todo : j >= k
       IN  insert(ScanDevices(hw, todo \ {i}), i, ScannedDevice(hw, i))

\* DeviceList::DeviceList(): scans the visible devices into the map
DeviceList(hw) == ScanDevices(hw, DOMAIN hw)

\* the explicit re-scan: the registry is rebuilt from what is visible now; a
\* device some thread is running on stays visible
Rescan(hw) ==
  /\ \A t \in Threads : active[t] \subseteq DOMAIN hw
  /\ registry' = DeviceList(hw)
  /\ UNCHANGED <<logVars, active, engines, lastCtor, lastPickle, lastResolve, execVars>>

\* find_compatible_devices(target_device, hardware_compatible)
FindCall(target_device, hardware_compatible) ==
  /\ lastResolve = NoCall
  /\ lastResolve' =
       [target |-> target_device, hc |-> hardware_compatible,
        found |-> find_compatible_devices(registry, target_device, hardware_compatible)]
  /\ UNCHANGED <<logVars, registry, active, engines, lastCtor, lastPickle, execVars>>

InitReg ==
  /\ \E hw \in Hardware : registry = DeviceList(hw)
  /\ active = [t \in Threads |-> {}]
  /\ engines = [e \in EngineSlots |-> NoEngine]
  /\ lastCtor = NoCall
  /\ lastPickle = NoCall
  /\ lastResolve = NoCall
  /\ ctx = [h \in EngineSlots |-> UnboundCtx]
  /\ pc = [t \in Threads |-> "idle"]
  /\ call = [t \in Threads |-> NoCall]
  /\ lastExec = NoCall
  /\ lastEncode = NoCall
  /\ lastShape = NoCall
  /\ streams = IdleStreams
  /\ heap = EmptyHeap
  /\ lastSpec = NoCall

NextReg ==
  \/ \E hw \in Hardware : Rescan(hw)
  \/ \E hc \in BOOLEAN : ResolveCall(RefTarget, ActiveDev(MainThread), hc)
  \/ \E hc \in BOOLEAN : FindCall(RefTarget, hc)
  \/ ConstructNamed(MainThread, FirstSlot, <<"m">>, BlobA, RefTarget, TRUE)
  \/ ExecBind(MainThread, FirstSlot, <<"x">>)
  \/ ExecEnqueue(MainThread)
  \/ ExecReturn(MainThread)

SpecReg == InitReg /\ [][NextReg]_vars

(* ----------------------- user-facing compile settings ------------------- *)
\* at::MemoryFormat and c10::ScalarType values a caller can pass
MemoryFormats == {"Contiguous", "Preserve", "ChannelsLast", "ChannelsLast3d"}
ScalarTypes == {"Half", "Float", "Char", "Int", "Bool", "Long"}

\* a TRTORCH_CHECK / TRTORCH_ASSERT that failed: the call throws
Thrown(msg) == [ok |-> FALSE, err |-> msg]

\* CompileSpec::DataType::DataType(c10::ScalarType t)
DataType(t) ==
  IF ~(t \in {"Half", "Float", "Char", "Int", "Bool"})
  THEN Thrown("Data type is unsupported")
  ELSE [ok |-> TRUE, err |-> "",
        value |-> CASE t = "Half" -> "kHalf"
                    [] t = "Char" -> "kChar"
                    [] t = "Int" -> "kInt"
                    [] t = "Bool" -> "kBool"
                    [] OTHER -> "kFloat"]

\* CompileSpec::TensorFormat::TensorFormat(at::MemoryFormat t): the switch
\* has no break after the ChannelsLast case, so control continues into the
\* Contiguous / default label and its assignment is the last one made
TensorFormat(t) ==
  IF ~(t = "Contiguous" \/ t = "ChannelsLast")
  THEN Thrown("Tensor format is unsupported")
  ELSE LET atChannelsLast == IF t = "ChannelsLast" THEN "kChannelsLast" ELSE "kUnknown"
           atContiguous == "kContiguous"
       IN  [ok |-> TRUE, err |-> "", value |-> atContiguous]

\* an at::Tensor as Input reads it: sizes, scalar type, and whether it is
\* contiguous in the default and in the channels-last memory format
TorchTensor(sizes, st, contiguous, channels_last) ==
  [sizes |-> sizes, scalar_type |-> st, contiguous |-> contiguous,
   channels_last |-> channels_last]

is_contiguous(tensor, fmt) ==
  IF fmt = "Contiguous" THEN tensor.contiguous
  ELSE IF fmt = "ChannelsLast" THEN tensor.channels_last
  ELSE FALSE

\* CompileSpec::Input::Input(at::Tensor tensor)
Input(tensor) ==
  LET dtype == DataType(tensor.scalar_type)
      frmt == IF is_contiguous(tensor, "Contiguous") THEN "Contiguous" ELSE "ChannelsLast"
      format == TensorFormat(frmt)
  IN  IF ~dtype.ok THEN dtype
      ELSE IF ~(is_contiguous(tensor, "ChannelsLast") \/ is_contiguous(tensor, "Contiguous"))
      THEN Thrown("Tensor does not have a supported contiguous memory format")
      ELSE IF ~format.ok THEN format
      ELSE [ok |-> TRUE, err |-> "",
            opt_shape |-> tensor.sizes, min_shape |-> tensor.sizes,
            max_shape |-> tensor.sizes, shape |-> tensor.sizes,
            dtype |-> dtype.value, format |-> format.value,
            input_is_dynamic |-> FALSE]

\* the fields of the external CompileSpec that the partitioning settings
\* and the device type are derived from
ExternalSpec(rfc, ops, mods, mbs, dt) ==
  [require_full_compilation |-> rfc, torch_executed_ops |-> ops,
   torch_executed_modules |-> mods, min_block_size |-> mbs, device_type |-> dt]

\* to_internal_compile_spec(CompileSpec external)
to_internal_compile_spec(external) ==
  IF external.require_full_compilation /\ Len(external.torch_executed_ops) > 0
  THEN Thrown("require_full_compilation is enabled however the list of ops to run in torch is not empty")
  ELSE IF external.require_full_compilation /\ Len(external.torch_executed_modules) > 0
  THEN Thrown("require_full_compilation is enabled however the list of modules to run in torch is not empty")
  ELSE [ok |-> TRUE, err |-> "",
        partition_info |->
          [enabled |-> external.require_full_compilation,
           min_block_size |-> external.min_block_size,
           forced_fallback_operators |-> external.torch_executed_ops],
        forced_fallback_modules |-> external.torch_executed_modules,
        device_type |-> IF external.device_type = "kDLA" THEN "kDLA" ELSE "kGPU"]

TensorSizes == {<<1, 3, 4, 4>>, <<1, 1, 1, 1>>, <<2, 3>>}
TorchTensors ==
  {TorchTensor(sz, st, c, cl) :
     sz \in TensorSizes, st \in ScalarTypes, c \in BOOLEAN, cl \in BOOLEAN}
BlockSizes == {1, 2, 3}
ExternalSpecs ==
  {ExternalSpec(rfc, ops, mods, mbs, dt) :
     rfc \in BOOLEAN, ops \in {<< >>, <<"aten::add">>}, mods \in {<< >>, <<"M">>},
     mbs \in BlockSizes, dt \in {"kGPU", "kDLA"}}

MakeTensorFormat(t) ==
  /\ lastSpec' = [op |-> "TensorFormat", arg |-> t, out |-> TensorFormat(t)]
  /\ UNCHANGED <<lastEncode, lastShape, streams, heap, registry, active, engines,
                 lastCtor, lastPickle, lastResolve, execVars>>

MakeInput(tensor) ==
  /\ lastSpec' = [op |-> "Input", arg |-> tensor, out |-> Input(tensor)]
  /\ UNCHANGED <<lastEncode, lastShape, streams, heap, registry, active, engines,
                 lastCtor, lastPickle, lastResolve, execVars>>

ToInternal(external) ==
  /\ lastSpec' = [op |-> "to_internal_compile_spec", arg |-> external,
                  out |-> to_internal_compile_spec(external)]
  /\ UNCHANGED <<lastEncode, lastShape, streams, heap, registry, active, engines,
                 lastCtor, lastPickle, lastResolve, execVars>>

NextCompile ==
  \/ \E t \in MemoryFormats : MakeTensorFormat(t)
  \/ \E tensor \in TorchTensors : MakeInput(tensor)
  \/ \E external \in ExternalSpecs : ToInternal(external)

SpecCompile == InitName /\ [][NextCompile]_vars

(* ------------------------------- claims -------------------------------- *)
InitSteps == <<"resolve", "set_device", "deserialize_plan", "create_ctx", "bind", "num_io">>

\* C1: a record whose ABI tag differs from ABI_VERSION never constructs an
\* Engine, and the constructor stops before it reads the name, the device
\* descriptor or the plan bytes: no device is resolved or made active and no
\* plan is deserialized.
C1_AbiGate ==
  (lastCtor # NoCall /\ lastCtor.path = "record" /\ lastCtor.abiMismatch) =>
    /\ ~lastCtor.ok
    /\ lastCtor.steps = << >>
    /\ lastCtor.setDevice = NoDevice
    /\ \A i \in 1 .. Len(lastCtor.fields) : lastCtor.fields[i] = ABI_TARGET_IDX

\* a four-field record with a foreign tag was rejected by the ABI comparison
C1_Witness ==
  /\ lastCtor # NoCall
  /\ lastCtor.path = "record"
  /\ lastCtor.abiMismatch
  /\ lastCtor.target # NoDevice
  /\ lastCtor.fields = <<ABI_TARGET_IDX>>
  /\ DOMAIN registry # {}

\* C2: unpickling the pickle of any Engine gives an Engine with the same
\* device descriptor, name, input and output binding maps and num_io, held in
\* a new plan object.
C2_RoundTrip ==
  lastPickle # NoCall =>
    /\ lastPickle.ok
    /\ lastPickle.dst.name = lastPickle.src.name
    /\ lastPickle.dst.device_info = lastPickle.src.device_info
    /\ lastPickle.dst.in_binding_map = lastPickle.src.in_binding_map
    /\ lastPickle.dst.out_binding_map = lastPickle.src.out_binding_map
    /\ lastPickle.dst.num_io = lastPickle.src.num_io
    /\ lastPickle.dst.obj # lastPickle.src.obj

C4_NeverDowngrades ==
  (lastResolve # NoCall /\ lastResolve.result # NoDevice) =>
    lastResolve.result.sig >= lastResolve.target.sig

\* a device was returned although a weaker device of the target's kind is
\* registered
C4_Witness ==
  /\ lastResolve # NoCall
  /\ lastResolve.result # NoDevice
  /\ \E d \in get_devices(registry) :
       d.kind = lastResolve.target.kind /\ d.sig < lastResolve.target.sig

\* both constructor calls got as far as the resolver
RanResolve(log) == log # NoCall /\ Len(log.steps) >= 1

FellThrough(call_) ==
  \/ call_.curr = NoDevice
  \/ call_.curr \notin get_devices(registry)
  \/ call_.curr.sig < call_.target.sig

ScanCandidates(call_) ==
  {d \in get_devices(registry) :
     /\ KindCompatible(call_.target.kind, d.kind, call_.hc)
     /\ d.sig >= call_.target.sig}

\* C6: when the resolver scans the registry it returns the candidate with the
\* highest signature among those not below the target's, and the lowest
\* logical id among candidates tied on that signature.
C6_BestCandidate ==
  (lastResolve # NoCall /\ FellThrough(lastResolve)) =>
    IF ScanCandidates(lastResolve) = {}
    THEN lastResolve.result = NoDevice
    ELSE /\ lastResolve.result \in ScanCandidates(lastResolve)
         /\ \A d \in ScanCandidates(lastResolve) :
              /\ lastResolve.result.sig >= d.sig
              /\ d.sig = lastResolve.result.sig => lastResolve.result.id <= d.id

\* the scan had two candidates tied on the highest signature
C6_Witness ==
  /\ lastResolve # NoCall
  /\ FellThrough(lastResolve)
  /\ lastResolve.result # NoDevice
  /\ \E d \in ScanCandidates(lastResolve) :
       d # lastResolve.result /\ d.sig = lastResolve.result.sig

\* C7: a supplied current device that is registered and whose signature is
\* not below the target's is returned, whatever else is registered.
C7_PrefersCurrent ==
  (/\ lastResolve # NoCall
   /\ lastResolve.curr # NoDevice
   /\ lastResolve.curr \in get_devices(registry)
   /\ lastResolve.curr.sig >= lastResolve.target.sig)
    => lastResolve.result = lastResolve.curr

\* the current device was returned although the scan has a stronger candidate
C7_Witness ==
  /\ lastResolve # NoCall
  /\ lastResolve.curr # NoDevice
  /\ lastResolve.result = lastResolve.curr
  /\ \E d \in ScanCandidates(lastResolve) : d.sig > lastResolve.curr.sig

\* C8: when no compatible device is found the constructor fails with the
\* device error before it makes a device active, deserializes the plan or
\* creates an execution context.
C8_NoDeviceFailsFirst ==
  (RanResolve(lastCtor) /\ ~lastCtor.steps[1].ok) =>
    /\ ~lastCtor.ok
    /\ lastCtor.err = "No compatible device was found"
    /\ lastCtor.setDevice = NoDevice
    /\ Len(lastCtor.steps) = 1

\* the resolver found nothing on a host that does have devices
C8_Witness ==
  /\ RanResolve(lastCtor)
  /\ ~lastCtor.steps[1].ok
  /\ DOMAIN registry # {}

\* C9: every constructor runs the initialization steps in the order resolve,
\* make active, deserialize plan, create context, populate binding maps,
\* record num_io, and no step runs unless every earlier step succeeded.
C9_InitOrder ==
  lastCtor # NoCall =>
    /\ Len(lastCtor.steps) <= Len(InitSteps)
    /\ \A i \in 1 .. Len(lastCtor.steps) :
         /\ lastCtor.steps[i].step = InitSteps[i]
         /\ i < Len(lastCtor.steps) => lastCtor.steps[i].ok

\* C10: every Engine a constructor returns has a resolved device, a non-null
\* plan, a non-null execution context, binding maps and num_io, and a
\* constructor in which any step failed returns no Engine.
C10_NoPartialEngine ==
  /\ \A e \in EngineSlots :
       engines[e] # NoEngine =>
         /\ engines[e].device_info # NoDevice
         /\ engines[e].cuda_engine # Null
         /\ engines[e].exec_ctx # Null
  /\ lastCtor # NoCall =>
       ((\E i \in 1 .. Len(lastCtor.steps) : ~lastCtor.steps[i].ok) => ~lastCtor.ok)

(* the binding-name convention: a name ends in _<N>, N a run of digits *)
LastUnderscore(nm) ==
  LET us == {i \in 1 .. Len(nm) : nm[i] = "_"}
  IN  IF us = {} THEN 0 ELSE CHOOSE i \in us : \A j \in us : j <= i

WellFormedSlot(nm) ==
  /\ LastUnderscore(nm) > 0
  /\ LastUnderscore(nm) < Len(nm)
  /\ \A i \in (LastUnderscore(nm) + 1) .. Len(nm) : nm[i] \in Digits

\* the N of a well-formed name
TrailingOrdinal(nm) ==
  DigitsValue(nm, LastUnderscore(nm) + 1, Len(nm) - LastUnderscore(nm))

ReachedBindingLoop(log) == log # NoCall /\ log.slots # << >>

\* C11: a constructor whose plan declares a slot whose name does not end in
\* _<N>, N a non-negative integer, fails: no such plan yields an Engine.
C11_MalformedNameFails ==
  (/\ ReachedBindingLoop(lastCtor)
   /\ \E i \in 1 .. Len(lastCtor.slots) : ~WellFormedSlot(lastCtor.slots[i].name))
    => ~lastCtor.ok

\* C12: a constructor whose plan names every slot <prefix>_<N> succeeds and
\* records for each slot its trailing ordinal N, in the input map for an
\* input slot and in the output map otherwise; the plan input_0 .. input_3,
\* output_0 .. output_1 gives num_io = (4, 2).
C12_TrailingOrdinal ==
  (/\ ReachedBindingLoop(lastCtor)
   /\ \A i \in 1 .. Len(lastCtor.slots) : WellFormedSlot(lastCtor.slots[i].name))
    => /\ lastCtor.ok
       /\ \A e \in EngineSlots :
            engines[e] # NoEngine =>
              LET eng == engines[e]
                  bs == eng.cuda_engine.bindings
              IN  /\ \A x \in DOMAIN eng.in_binding_map :
                       /\ bs[x + 1].isInput
                       /\ eng.in_binding_map[x] = TrailingOrdinal(bs[x + 1].name)
                  /\ \A x \in DOMAIN eng.out_binding_map :
                       /\ ~bs[x + 1].isInput
                       /\ eng.out_binding_map[x] = TrailingOrdinal(bs[x + 1].name)
                  /\ DOMAIN eng.in_binding_map \cup DOMAIN eng.out_binding_map
                       = 0 .. (Len(bs) - 1)
                  /\ serialize(eng.cuda_engine) = BlobDense => eng.num_io = <<4, 2>>

Ordinals(map) == {map[x] : x \in DOMAIN map}

\* C13: in every Engine the ordinals of the input slots are exactly
\* 0 .. num_inputs - 1 and those of the output slots exactly
\* 0 .. num_outputs - 1, none repeated and none skipped.
C13_DenseOrdinals ==
  \A e \in EngineSlots :
    engines[e] # NoEngine =>
      /\ Ordinals(engines[e].in_binding_map) = 0 .. (engines[e].num_io[1] - 1)
      /\ Ordinals(engines[e].out_binding_map) = 0 .. (engines[e].num_io[2] - 1)
      /\ Cardinality(DOMAIN engines[e].in_binding_map) = engines[e].num_io[1]
      /\ Cardinality(DOMAIN engines[e].out_binding_map) = engines[e].num_io[2]

\* C14: copy-assigning Engine f to Engine e leaves e with f's plan object and
\* with input and output binding maps equal to f's.
C14_CloneCopiesMaps ==
  [][\A e, f \in EngineSlots :
       Assign(e, f) =>
         /\ engines'[e].cuda_engine = engines[f].cuda_engine
         /\ engines'[e].in_binding_map = engines[f].in_binding_map
         /\ engines'[e].out_binding_map = engines[f].out_binding_map]_vars

DecodedRecord(log) == log # NoCall /\ log.path = "record"

\* C16: the deserializing constructor yields an Engine only from a record of
\* exactly the nine fields of the current layout; a record with fewer fields
\* is always rejected.
C16_OnlyNineFields ==
  (DecodedRecord(lastCtor) /\ lastCtor.ok) => lastCtor.nfields = SERIALIZATION_LEN

\* C17: every record whose ABI tag differs from ABI_VERSION is rejected with
\* an error that names the record's tag and the runtime's tag, whatever the
\* number of fields of the record.
C17_MismatchNamesBoth ==
  (DecodedRecord(lastCtor) /\ lastCtor.abiMismatch) =>
    /\ ~lastCtor.ok
    /\ Len(lastCtor.named) = 2
    /\ lastCtor.named[1] # ABI_VERSION
    /\ lastCtor.named[2] = ABI_VERSION

\* the supplied name with every '.' replaced by '_'
DotsReplaced(nm) == [i \in DOMAIN nm |-> IF nm[i] = "." THEN "_" ELSE nm[i]]

HasDot(nm) == \E i \in DOMAIN nm : nm[i] = "."

\* C18: every constructor stores the supplied name with every '.' replaced by
\* '_' and nothing else changed; no Engine's name and no pickled name holds a
\* '.'; unpickling a pickled Engine gives an Engine of the same name.
C18_NameSlugified ==
  /\ [](\A e \in EngineSlots : engines[e] # NoEngine => ~HasDot(engines[e].name))
  /\ [](\A e \in EngineSlots :
          engines[e] # NoEngine => ~HasDot(At(Pickle(engines[e]), NAME_IDX)))
  /\ []((lastPickle # NoCall /\ lastPickle.ok) =>
          lastPickle.dst.name = lastPickle.src.name)
  /\ [][(lastCtor' # lastCtor /\ lastCtor'.ok) =>
         \E e \in EngineSlots :
           /\ engines[e] = NoEngine
           /\ engines'[e] # NoEngine
           /\ engines'[e].name = DotsReplaced(lastCtor'.mod_name)]_vars

\* an Engine built under a dotted name was pickled and unpickled, and both
\* Engines are alive
C18_Witness ==
  /\ lastPickle # NoCall
  /\ lastPickle.ok
  /\ lastPickle.dst.name = <<"a", "_", "b">>
  /\ \E e, f \in EngineSlots :
       /\ e # f
       /\ engines[e] # NoEngine
       /\ engines[f] # NoEngine
       /\ engines[e].name = engines[f].name
       /\ engines[e].name = DotsReplaced(<<"a", ".", "b">>)

\* C15: no execute call, accepted or rejected, and no encode changes the
\* binding maps, num_io or the device descriptor of a constructed Engine,
\* however the calls of the threads interleave.
C15_EngineFrame ==
  [][\A e \in EngineSlots :
       engines[e] # NoEngine =>
         /\ engines'[e] # NoEngine
         /\ engines'[e].in_binding_map = engines[e].in_binding_map
         /\ engines'[e].out_binding_map = engines[e].out_binding_map
         /\ engines'[e].num_io = engines[e].num_io
         /\ engines'[e].device_info = engines[e].device_info]_vars

\* the Engine was encoded and executed on, a call was rejected, and two
\* threads are inside execute on it
C15_Witness ==
  /\ lastEncode # NoCall
  /\ lastExec # NoCall
  /\ lastExec.ok
  /\ lastExec.afterReject
  /\ \E t, u \in Threads : t # u /\ pc[t] = "bound" /\ pc[u] = "enqueued"

\* C19: execute rejects a request exactly when its length differs from
\* num_inputs; a rejected call binds nothing, enqueues nothing and leaves the
\* Engine, its execution context and the thread as they were, and the thread
\* can then execute a request of the right length on the same Engine.
C19_LengthPrecondition ==
  /\ [](lastExec # NoCall =>
          (lastExec.ok <=>
             Len(lastExec.req) = engines[lastExec.engine].num_io[1]))
  /\ [][(lastExec' # lastExec /\ ~lastExec'.ok) =>
         /\ engines' = engines
         /\ ctx' = ctx
         /\ pc' = pc
         /\ call' = call
         /\ active' = active]_vars
  /\ []((lastExec # NoCall /\ ~lastExec.ok /\ pc[lastExec.thread] = "idle") =>
          \A req \in UseRequests :
            Len(req) = engines[lastExec.engine].num_io[1] =>
              ENABLED ExecBind(lastExec.thread, lastExec.engine, req))

\* a call with the right number of inputs returned after a call on the same
\* Engine had been rejected
C19_Witness ==
  /\ lastExec # NoCall
  /\ lastExec.ok
  /\ lastExec.afterReject
  /\ lastExec.result # << >>

ScenarioShapes == {<<1, 3, 112, 112>>, <<1, 3, 224, 224>>, <<1, 3, 448, 448>>}

\* C20: execute accepts an input exactly when every dimension of its shape is
\* between the slot's declared min and max (the static shape for a static
\* slot) and its dtype is the slot's; on the plan with min [1,3,112,112],
\* opt [1,3,224,224], max [1,3,448,448] the three declared shapes are accepted
\* and [1,3,500,500] is rejected, and a rejected call enqueues nothing.
C20_ShapePrecondition ==
  lastShape # NoCall =>
    LET slot == lastShape.slot
        tensor == lastShape.tensor
        rank == Len(slot.min)
    IN  /\ lastShape.ok <=>
             /\ Len(tensor.shape) = rank
             /\ \A i \in 1 .. rank :
                  tensor.shape[i] >= slot.min[i] /\ tensor.shape[i] <= slot.max[i]
             /\ tensor.dtype = slot.dtype
        /\ (slot.min = slot.max /\ lastShape.ok) => tensor.shape = slot.opt
        /\ (slot = ScenarioSlot /\ tensor.dtype = "float"
              /\ tensor.shape \in ScenarioShapes) => lastShape.ok
        /\ (slot = ScenarioSlot /\ tensor.shape = <<1, 3, 500, 500>>) => ~lastShape.ok
        /\ ~lastShape.ok => ~lastShape.enqueued

\* the call with shape [1,3,500,500] on the scenario plan was rejected
C20_Witness ==
  /\ lastShape # NoCall
  /\ lastShape.slot = ScenarioSlot
  /\ lastShape.tensor = Tensor(<<1, 3, 500, 500>>, "float")
  /\ ~lastShape.ok

\* the slot of the plan with the given direction and trailing ordinal
SlotOf(bs, isIn, n) ==
  CHOOSE x \in 0 .. (Len(bs) - 1) :
    bs[x + 1].isInput = isIn /\ TrailingOrdinal(bs[x + 1].name) = n

\* every input slot of the plan holding the request tensor of its ordinal
BoundByOrdinal(bs, req) ==
  [x \in {y \in 0 .. (Len(bs) - 1) : bs[y + 1].isInput} |->
     req[TrailingOrdinal(bs[x + 1].name) + 1]]

\* C21: a successful execute returns num_outputs tensors; the tensor at
\* position k is the one the plan produced for the output slot of ordinal k,
\* computed with the k-th request tensor bound to the input slot of ordinal
\* k, in whatever order the plan declares its slots.
C21_SlotOrder ==
  [][(pc[MainThread] = "enqueued" /\ pc'[MainThread] = "idle") =>
       LET eng == engines[lastExec'.engine]
           bs == eng.cuda_engine.bindings
           res == lastExec'.result
       IN  /\ lastExec'.ok
           /\ Len(res) = eng.num_io[2]
           /\ Len(res) = Cardinality({x \in 1 .. Len(bs) : ~bs[x].isInput})
           /\ \A k \in 1 .. Len(res) :
                res[k] = PlanOutput(SlotOf(bs, FALSE, k - 1),
                                    BoundByOrdinal(bs, lastExec'.req))]_vars

\* position of work id in the completion order, 0 while it has not completed
DonePos(id) ==
  IF \E j \in 1 .. Len(streams.done) : streams.done[j] = id
  THEN CHOOSE j \in 1 .. Len(streams.done) : streams.done[j] = id
  ELSE 0

IssuedIds(kind) == {i \in 1 .. Len(streams.issued) : streams.issued[i] = kind}

\* C22: every execute in caller-queue mode inserts two synchronization
\* points; the plan's work completes after all work the caller enqueued
\* before the call, and work the caller enqueues after the call runs only
\* after the plan's work has completed.
C22_TwoSyncPoints ==
  \A p \in IssuedIds("p") :
    /\ streams.syncs[p] = 2
    /\ \A w \in IssuedIds("w") :
         /\ (w < p /\ DonePos(p) > 0) => (DonePos(w) > 0 /\ DonePos(w) < DonePos(p))
         /\ (w > p /\ DonePos(w) > 0) => (DonePos(p) > 0 /\ DonePos(p) < DonePos(w))

\* the caller's work, the plan's work and more work of the caller, all done
C22_Witness ==
  /\ Len(streams.issued) >= 3
  /\ Len(streams.done) >= 3
  /\ SubSeq(streams.issued, 1, 3) = <<"w", "p", "w">>
  /\ SubSeq(streams.done, 1, 3) = <<1, 2, 3>>
  /\ {<<2, "in">>, <<2, "out">>} \subseteq streams.fired

EngineDevice(e) == {engines[e].device_info.id}

\* C23: from the moment execute has bound its inputs until it returns, the
\* calling thread's active device is the device of the Engine it executes,
\* whatever the other threads execute meanwhile, and the work of every call
\* is submitted to the device of the call's own Engine.
C23_ThreadLocalDevice ==
  /\ \A t \in Threads :
       pc[t] \in {"bound", "enqueued"} => active[t] = EngineDevice(call[t].engine)
  /\ \A t \in Threads :
       pc[t] = "enqueued" => call[t].dev = EngineDevice(call[t].engine)
  /\ (lastExec # NoCall /\ lastExec.ok) => lastExec.dev = EngineDevice(lastExec.engine)

\* two threads are inside execute on Engines of different devices, and one
\* of them executed on the other Engine before
C23_Witness ==
  \E t, u \in Threads :
    /\ pc[t] = "enqueued"
    /\ pc[u] = "enqueued"
    /\ call[t].dev # call[u].dev
    /\ lastExec # NoCall
    /\ lastExec.thread = t
    /\ lastExec.dev = call[u].dev

\* C24: a plan object is allocated exactly as long as some Engine refers to
\* it, and so is an execution context; every Engine a thread holds a
\* reference to exists, its plan is allocated, and its context is allocated
\* together with the plan the context belongs to; a plan object that stops
\* being allocated was released exactly once, at a step after which no Engine
\* refers to it.
C24_ReleasedWithLastReference ==
  /\ [](\A e \in EngineSlots, h \in EngineSlots :
         /\ heap.holders[e] # {} <=> engines[e] # NoEngine
         /\ HoldsPlan(engines[e], h) => h \in heap.live
         /\ HoldsCtx(engines[e], h) => h \in heap.ctxs /\ h \in heap.live
         /\ h \in heap.live <=> \E f \in EngineSlots : HoldsPlan(engines[f], h)
         /\ h \in heap.ctxs <=> \E f \in EngineSlots : HoldsCtx(engines[f], h)
         /\ heap.freed[h] <= 1)
  /\ [][\A h \in EngineSlots :
          (h \in heap.live /\ h \notin heap'.live) =>
             /\ heap'.freed[h] = 1
             /\ \A e \in EngineSlots : ~HoldsPlan(engines'[e], h)]_vars

\* two Engines held by different sets of threads share one allocated plan and
\* its context after an assignment that released the plan the assigned Engine
\* had before
C24_Witness ==
  \E e \in EngineSlots, f \in EngineSlots, h \in EngineSlots, g \in EngineSlots :
    /\ e # f /\ h # g
    /\ HoldsPlan(engines[e], h) /\ HoldsPlan(engines[f], h)
    /\ HoldsCtx(engines[e], h) /\ HoldsCtx(engines[f], h)
    /\ heap.holders[e] # heap.holders[f]
    /\ h \in heap.live
    /\ g \notin heap.live /\ g \notin heap.ctxs /\ heap.freed[g] = 1

C26_TensorFormatMapping ==
  /\ (lastSpec # NoCall /\ lastSpec.op = "TensorFormat") =>
       /\ lastSpec.arg = "Contiguous" =>
            lastSpec.out.ok /\ lastSpec.out.value = "kContiguous"
       /\ lastSpec.arg = "ChannelsLast" =>
            lastSpec.out.ok /\ lastSpec.out.value = "kChannelsLast"
       /\ lastSpec.arg \notin {"Contiguous", "ChannelsLast"} => ~lastSpec.out.ok
  /\ (/\ lastSpec # NoCall /\ lastSpec.op = "Input"
      /\ lastSpec.arg.channels_last /\ ~lastSpec.arg.contiguous
      /\ lastSpec.out.ok) => lastSpec.out.format = "kChannelsLast"

\* C27: to_internal_compile_spec fails when require_full_compilation comes
\* with a non-empty list of Torch-executed ops or modules, and when it
\* succeeds partitioning is enabled exactly when require_full_compilation is
\* false.
C27_PartitioningUnlessFullCompilation ==
  (lastSpec # NoCall /\ lastSpec.op = "to_internal_compile_spec") =>
    /\ (/\ lastSpec.arg.require_full_compilation
        /\ \/ lastSpec.arg.torch_executed_ops # << >>
           \/ lastSpec.arg.torch_executed_modules # << >>) => ~lastSpec.out.ok
    /\ lastSpec.out.ok =>
         (lastSpec.out.partition_info.enabled <=>
            ~lastSpec.arg.require_full_compilation)

\* C28: the record encoded from a live Engine passes the decoder's length
\* check and ABI check: it has the number of fields the decoder requires, its
\* first field is ABI_VERSION, and the decoder reads the Engine's name, device
\* descriptor and plan bytes back from the indices it uses.
C28_EncodedRecordAccepted ==
  lastEncode # NoCall =>
    LET eng == engines[FirstSlot]
        out == TRTEngine1(registry, lastEncode, TRUE, FreshObj, NoDevice)
    IN  /\ out.err \notin {"incompatible TRTorch ABI", "different TRTorch ABI Version"}
        /\ out.nfields = Len(lastEncode)
        /\ At(lastEncode, ABI_TARGET_IDX) = ABI_VERSION
        /\ out.fields = <<ABI_TARGET_IDX, NAME_IDX, ENGINE_IDX, DEVICE_IDX>>
        /\ At(lastEncode, NAME_IDX) = eng.name
        /\ deserialize_device(At(lastEncode, DEVICE_IDX)) = eng.device_info
        /\ At(lastEncode, ENGINE_IDX) = serialize(eng.cuda_engine)
        /\ out.ok
        /\ out.engine.name = eng.name
        /\ out.engine.in_binding_map = eng.in_binding_map

\* an Engine with two inputs was executed on and then encoded
C28_Witness ==
  /\ lastEncode # NoCall
  /\ engines[FirstSlot].num_io = <<2, 1>>
  /\ lastExec # NoCall /\ lastExec.ok
  /\ \A t \in Threads : pc[t] = "idle"

\* C29: every Engine, after construction and after any copy-assignment, has
\* num_io.first equal to the size of its input binding map, num_io.second
\* equal to the size of its output binding map, and their sum equal to the
\* binding count of the plan it holds.
C29_NumIoMatchesMaps ==
  \A e \in EngineSlots :
    engines[e] # NoEngine =>
      /\ engines[e].num_io[1] = Cardinality(DOMAIN engines[e].in_binding_map)
      /\ engines[e].num_io[2] = Cardinality(DOMAIN engines[e].out_binding_map)
      /\ engines[e].num_io[1] + engines[e].num_io[2] =
           getNbBindings(engines[e].cuda_engine)

====
